---- MODULE Spec2Model ----
(***************************************************************************)
(* Question answering over the movie graph: the regex pipeline of          *)
(* neo4j_movie_qa.py (MovieKnowledgeGraphQA) and the generative pipeline   *)
(* of llm_movie_qa.py (EnhancedMovieKnowledgeGraphQA), the latter also     *)
(* served to concurrent callers by gradio_movie_qa.py; the two functions   *)
(* of llm_movie_qa.py that read a completion (get_question_intent and the  *)
(* sanitizing of generate_cypher_query) on their own; and the loader of    *)
(* build_neo4j_imdb_graph.py (IMDBGraphBuilder).                           *)
(*                                                                         *)
(* A Python str is a sequence of characters, each a one-character string;  *)
(* the grave accent, which a TLA+ string cannot hold, is the value Grave.   *)
(* None of an Optional[str] is the one-element sequence None, which is no   *)
(* str because its element is no character.                                 *)
(***************************************************************************)
EXTENDS Integers, Sequences, FiniteSets, TLC

VARIABLES
    program,        \* which executable runs: its main() owns the driver
    pc,             \* deterministic pipeline: position inside answer_question
    question,       \* answer_question's argument
    query_type,     \* local of answer_question (match_question's first result)
    param,          \* local of answer_question (match_question's second result)
    sent,           \* what session.run was last called with: query text and bindings
    records,        \* local `results` of execute_query: what the store produced
    results,        \* local `results` of answer_question: execute_query's return value
    output,         \* what answer_question returned (printed by main)
    sessions,       \* sessions of self.driver that are open
    logged,         \* records written to self.logger while the question is handled
    calls,          \* methods answer_question has called for the question, in order
    raised,         \* the calls that raised while the question was handled
    refq,           \* matcher harness: the question the variants are made from
    refres,         \* matcher harness: match_question's result for refq
    varq,           \* matcher harness: the variant of refq
    varres,         \* matcher harness: match_question's result for varq
    gpc,            \* generative pipeline: each caller's position inside handle_complex_query
    gquestion,      \* handle_complex_query's argument, per caller
    cypher_query,   \* local of handle_complex_query, per caller
    grecords,       \* local `results` of execute_query, per caller
    query_results,  \* local of handle_complex_query, per caller
    composed,       \* the results the composer was last called with, per caller
    answer,         \* what handle_complex_query returned, per caller
    glogged,        \* error records the caller's question wrote to self.logger
    gcalls,         \* methods handle_complex_query has called for the question, in order
    graised,        \* the calls that raised while the caller's question was handled
    completion,     \* get_question_intent: what chat.completions.create does for the call
    intent,         \* get_question_intent: what the call returned
    reply,          \* generate_cypher_query: response.choices[0].message.content
    generated,      \* generate_cypher_query: what the call returned
    graph,          \* loader: the nodes and relationships the store holds
    pending,        \* loader: the rows of the data frame import_data has yet to iterate over
    history         \* loader: the rows import_data has processed so far, over all runs

detvars == <<pc, question, query_type, param, sent, records, results, output, logged, calls, raised>>

genvars == <<gpc, gquestion, cypher_query, grecords, query_results, composed, answer, glogged, gcalls, graised>>

harnessvars == <<refq, refres, varq, varres>>

intentvars == <<completion, intent>>

sanitizevars == <<reply, generated>>

loadvars == <<graph, pending, history>>

auxvars == <<intentvars, sanitizevars, loadvars>>

vars == <<program, sessions, detvars, genvars, harnessvars, auxvars>>

-----------------------------------------------------------------------------
(* Bounds of the model *)

\* characters of the name in a question
MaxName == 1
\* rows the store returns for one query
MaxRows == 2
\* rows the loader processes, over all its runs
MaxImports == 4

-----------------------------------------------------------------------------
(* Python str operations *)

None == <<"None">>

\* the character U+0060
Grave == "U+0060"

Uppers == <<"A", "B", "C", "D", "E", "F", "G", "H", "I", "J", "K", "L", "M", "N", "O", "P", "Q", "R", "S", "T", "U", "V", "W", "X", "Y", "Z">>

Lowers == <<"a", "b", "c", "d", "e", "f", "g", "h", "i", "j", "k", "l", "m", "n", "o", "p", "q", "r", "s", "t", "u", "v", "w", "x", "y", "z">>

UpperSet == {Uppers[i] : i \in 1..Len(Uppers)}

LowerSet == {Lowers[i] : i \in 1..Len(Lowers)}

ToLower == [c \in UpperSet |-> Lowers[CHOOSE i \in 1..Len(Uppers) : Uppers[i] = c]]

ToUpper == [c \in LowerSet |-> Uppers[CHOOSE i \in 1..Len(Lowers) : Lowers[i] = c]]

\* the case folding re.IGNORECASE compares characters by
Lower(c) == IF c \in UpperSet THEN ToLower[c] ELSE c

\* str.swapcase of one character
SwapCase(c) == IF c \in UpperSet THEN ToLower[c] ELSE IF c \in LowerSet THEN ToUpper[c] ELSE c

\* str.upper
upper(s) == [i \in 1..Len(s) |-> IF s[i] \in LowerSet THEN ToUpper[s[i]] ELSE s[i]]

\* the characters str.strip() removes when called without an argument
Whitespace == {" ", "\t", "\n", "\r"}

\* string.punctuation
punctuation == {"!", "\"", "#", "$", "%", "&", "'", "(", ")", "*", "+", ",", "-", ".", "/", ":", ";", "<", "=", ">", "?", "@", "[", "\\", "]", "^", "_", Grave, "{", "|", "}", "~"}

\* str.lstrip(chars): index of the first character kept, Len(s)+1 when none is
FirstKept(s, chars) == IF \A i \in 1..Len(s) : s[i] \in chars THEN Len(s) + 1
                       ELSE CHOOSE i \in 1..Len(s) : s[i] \notin chars /\ \A j \in 1..(i-1) : s[j] \in chars

\* str.rstrip(chars): index of the last character kept, 0 when none is
LastKept(s, chars) == IF \A i \in 1..Len(s) : s[i] \in chars THEN 0
                      ELSE CHOOSE i \in 1..Len(s) : s[i] \notin chars /\ \A j \in (i+1)..Len(s) : s[j] \in chars

\* str.strip(chars): every leading and trailing character in chars removed
strip(s, chars) == SubSeq(s, FirstKept(s, chars), LastKept(s, chars))

\* str.startswith
startswith(s, prefix) == Len(s) >= Len(prefix) /\ SubSeq(s, 1, Len(prefix)) = prefix

-----------------------------------------------------------------------------
\* re.match(pattern, string, re.IGNORECASE) for the patterns of the table:
\* a literal, one greedy dot-star group, a literal (possibly empty).

\* the literal lit matches s at position j, ignoring case
LiteralAt(s, j, lit) == /\ j + Len(lit) - 1 <= Len(s)
                        /\ \A i \in 1..Len(lit) : Lower(s[j + i - 1]) = Lower(lit[i])

\* "." matches anything but a newline: the position after the last character
\* that the dot-star group can consume when it starts at position from
DotStarLimit(s, from) == IF \E i \in from..Len(s) : s[i] = "\n"
                         THEN CHOOSE i \in from..Len(s) : s[i] = "\n" /\ \A j \in from..(i-1) : s[j] # "\n"
                         ELSE Len(s) + 1

\* the positions at which the literal after the group can start
GroupEnds(pattern, s) == {j \in (Len(pattern.pre) + 1)..DotStarLimit(s, Len(pattern.pre) + 1) : LiteralAt(s, j, pattern.suf)}

SetMax(S) == CHOOSE x \in S : \A y \in S : y <= x

\* re.match: anchored at position 0 of s; the group is greedy, so it ends at
\* the last position from which the rest of the pattern still matches
re_match(pattern, s) == IF LiteralAt(s, 1, pattern.pre) /\ GroupEnds(pattern, s) # {}
                        THEN [matched |-> TRUE, group1 |-> SubSeq(s, Len(pattern.pre) + 1, SetMax(GroupEnds(pattern, s)) - 1)]
                        ELSE [matched |-> FALSE, group1 |-> None]

-----------------------------------------------------------------------------
\* The rule table of define_question_patterns, in the insertion order of the
\* dict: each regex is its literal before the group and its literal after it.

DirectorQuery == "MATCH (p:Person)-[:DIRECTED]->(m:Movie) WHERE p.name = $param1 RETURN m.name as movie, m.year as year, m.rating as rating ORDER BY m.rating DESC"

ActorQuery == "MATCH (p:Person)-[:ACTED_IN]->(m:Movie) WHERE p.name = $param1 RETURN m.name as movie, m.year as year, m.rating as rating ORDER BY m.rating DESC"

MovieInfoQuery == "MATCH (m:Movie) WHERE m.name = $param1 OPTIONAL MATCH (p1:Person)-[:DIRECTED]->(m) OPTIONAL MATCH (p2:Person)-[:ACTED_IN]->(m) OPTIONAL MATCH (m)-[:BELONGS_TO]->(g:Genre) RETURN m.name as movie, m.year as year, m.rating as rating, m.certificate as certificate, m.run_time as runtime, collect(DISTINCT p1.name) as directors, collect(DISTINCT p2.name) as actors, collect(DISTINCT g.name) as genres"

question_patterns == <<
    [query_type |-> "director_movies",
     patterns |-> <<
            [pre |-> <<"w", "h", "a", "t", " ", "m", "o", "v", "i", "e", "s", " ", "d", "i", "d", " ">>,
             suf |-> <<" ", "d", "i", "r", "e", "c", "t">>],
            [pre |-> <<"s", "h", "o", "w", " ", "m", "e", " ", "m", "o", "v", "i", "e", "s", " ", "d", "i", "r", "e", "c", "t", "e", "d", " ", "b", "y", " ">>,
             suf |-> <<>>],
            [pre |-> <<"l", "i", "s", "t", " ">>,
             suf |-> <<"'", "s", " ", "m", "o", "v", "i", "e", "s", " ", "a", "s", " ", "d", "i", "r", "e", "c", "t", "o", "r">>]>>,
     query |-> DirectorQuery],
    [query_type |-> "actor_movies",
     patterns |-> <<
            [pre |-> <<"w", "h", "a", "t", " ", "m", "o", "v", "i", "e", "s", " ", "d", "i", "d", " ">>,
             suf |-> <<" ", "a", "c", "t", " ", "i", "n">>],
            [pre |-> <<"s", "h", "o", "w", " ", "m", "e", " ", "m", "o", "v", "i", "e", "s", " ", "s", "t", "a", "r", "r", "i", "n", "g", " ">>,
             suf |-> <<>>],
            [pre |-> <<"w", "h", "i", "c", "h", " ", "m", "o", "v", "i", "e", "s", " ", "f", "e", "a", "t", "u", "r", "e", "d", " ">>,
             suf |-> <<>>]>>,
     query |-> ActorQuery],
    [query_type |-> "movie_info",
     patterns |-> <<
            [pre |-> <<"t", "e", "l", "l", " ", "m", "e", " ", "a", "b", "o", "u", "t", " ", "t", "h", "e", " ", "m", "o", "v", "i", "e", " ">>,
             suf |-> <<>>],
            [pre |-> <<"w", "h", "a", "t", " ", "i", "s", " ", "t", "h", "e", " ", "i", "n", "f", "o", "r", "m", "a", "t", "i", "o", "n", " ", "f", "o", "r", " ">>,
             suf |-> <<>>],
            [pre |-> <<"s", "h", "o", "w", " ", "d", "e", "t", "a", "i", "l", "s", " ", "o", "f", " ", "m", "o", "v", "i", "e", " ">>,
             suf |-> <<>>]>>,
     query |-> MovieInfoQuery]>>


\* the query types, in table order
QueryTypes == {question_patterns[t].query_type : t \in 1..Len(question_patterns)}

\* self.question_patterns[query_type]
PatternsOf(qt) == question_patterns[CHOOSE t \in 1..Len(question_patterns) : question_patterns[t].query_type = qt]

\* the group stripped at its right end only
RStripPunctuation(group) == SubSeq(group, 1, LastKept(group, punctuation))

\* match.group(1).strip(string.punctuation)
StripPunctuation(group) == strip(group, punctuation)

\* the two loops of match_question from intent t, regex k on: the first regex
\* that matches returns; its group is stripped of string.punctuation
RECURSIVE MatchFrom(_, _, _)
MatchFrom(q, t, k) == IF t > Len(question_patterns) THEN [query_type |-> "None", param |-> None]
                      ELSE IF k > Len(question_patterns[t].patterns) THEN MatchFrom(q, t + 1, 1)
                      ELSE LET match == re_match(question_patterns[t].patterns[k], q)
                           IN  IF match.matched
                               THEN [query_type |-> question_patterns[t].query_type,
                                     param |-> StripPunctuation(match.group1)]
                               ELSE MatchFrom(q, t, k + 1)

\* the loops run to the end of the table, a later match replacing an earlier
\* one: the result is that of the last regex that matches
RECURSIVE MatchBackFrom(_, _, _)
MatchBackFrom(q, t, k) == IF t < 1 THEN [query_type |-> "None", param |-> None]
                          ELSE IF k < 1 THEN MatchBackFrom(q, t - 1, 3)
                          ELSE LET match == re_match(question_patterns[t].patterns[k], q)
                               IN  IF match.matched
                                   THEN [query_type |-> question_patterns[t].query_type,
                                         param |-> StripPunctuation(match.group1)]
                                   ELSE MatchBackFrom(q, t, k - 1)

match_question_last(q) == MatchBackFrom(strip(q, Whitespace), 3, 3)

\* match_question: the question is stripped of whitespace, then matched
match_question(q) == MatchFrom(strip(q, Whitespace), 1, 1)

-----------------------------------------------------------------------------
\* The questions put to the matcher: an opening phrase, a name of at most
\* MaxName characters and up to two closing phrases.

Openings == {<<>>, <<"s", "o", " ", "w", "h", "a", "t", " ", "m", "o", "v", "i", "e", "s", " ", "d", "i", "d", " ">>}
            \cup {question_patterns[t].patterns[k].pre : t \in 1..3, k \in 1..3}

Closings == {<<>>, <<"?">>} \cup {question_patterns[t].patterns[k].suf : t \in 1..3, k \in 1..3}

NameChars == {"A", ".", " "}

RECURSIVE StrsUpTo(_, _)
StrsUpTo(chars, n) == IF n = 0 THEN {<<>>}
                      ELSE StrsUpTo(chars, n - 1) \cup {Append(s, c) : s \in StrsUpTo(chars, n - 1), c \in chars}

Names == StrsUpTo(NameChars, MaxName)

Questions == {o \o n \o c1 \o c2 : o \in Openings, n \in Names, c1 \in Closings, c2 \in Closings}

\* whitespace put around a question
Pads == {<<>>, <<" ">>, <<"\n", "\t">>}

\* str.lower
lower(s) == [i \in 1..Len(s) |-> Lower(s[i])]

\* str.swapcase
swapcase(s) == [i \in 1..Len(s) |-> SwapCase(s[i])]

\* the case variants of a question the harness tries
Recase(kind, s) == CASE kind = "upper" -> upper(s)
                     [] kind = "lower" -> lower(s)
                     [] kind = "swapcase" -> swapcase(s)
                     [] OTHER -> s

CaseKinds == {"same", "upper", "lower", "swapcase"}

-----------------------------------------------------------------------------
\* Values of the graph store as the driver hands them to Python, each with
\* its Python type; a float is held in tenths.

PyText(s) == [t |-> "str", v |-> s]

PyInt(n) == [t |-> "int", v |-> n]

PyFloat(tenths) == [t |-> "float", v |-> tenths]

PyList(seq) == [t |-> "list", v |-> seq]

\* str(value), as an f-string renders a field
PyStr(x) == CASE x.t = "str" -> x.v
              [] x.t = "int" -> ToString(x.v)
              [] x.t = "float" -> ToString(x.v \div 10) \o "." \o ToString(x.v % 10)

\* a neo4j Record: the RETURN clause's keys and the values, in order
Record(keys, values) == [keys |-> keys, values |-> values]

\* Record.data(): the dict of the record
data(record) == [k \in {record.keys[i] : i \in 1..Len(record.keys)} |->
                    record.values[CHOOSE i \in 1..Len(record.keys) : record.keys[i] = k]]

ListKeys == <<"movie", "year", "rating">>

InfoKeys == <<"movie", "year", "rating", "certificate", "runtime", "directors", "actors", "genres">>

\* what the graph can hold for a movie-list query
ListRecords == {Record(ListKeys, <<PyText("Inception"), PyInt(2010), PyFloat(88)>>),
                Record(ListKeys, <<PyText("Memento"), PyInt(2000), PyFloat(84)>>)}

\* what the graph can hold for a movie_info query; Person.name is whatever
\* was written to the graph, so a collected name can be a number
InfoRecords == {Record(InfoKeys, <<PyText("Inception"), PyInt(2010), PyFloat(88), PyText("UA"), PyText("2h 28m"),
                                   PyList(<<PyText("Christopher Nolan")>>),
                                   PyList(<<PyText("Leonardo DiCaprio"), PyText("Elliot Page")>>),
                                   PyList(<<PyText("Action"), PyText("Sci-Fi")>>)>>),
                Record(InfoKeys, <<PyText("Seven"), PyInt(1995), PyFloat(86), PyText("A"), PyText("2h 7m"),
                                   PyList(<<PyInt(7)>>), PyList(<<>>), PyList(<<PyText("Crime")>>)>>)}

RECURSIVE SeqsUpTo(_, _)
SeqsUpTo(S, n) == IF n = 0 THEN {<<>>}
                  ELSE SeqsUpTo(S, n - 1) \cup {Append(s, x) : s \in SeqsUpTo(S, n - 1), x \in S}

\* the record sequences the store can produce for a template query
StoreResults(query) == IF query = MovieInfoQuery THEN SeqsUpTo(InfoRecords, MaxRows)
                       ELSE SeqsUpTo(ListRecords, MaxRows)

-----------------------------------------------------------------------------
\* format_response.  A Python str built by an f-string or by join is the
\* sequence of its parts; a line break is the part "\n".

Raised == [raised |-> TRUE, value |-> <<>>]

Returned(v) == [raised |-> FALSE, value |-> v]

\* sep.join(list): TypeError unless every item is a str
RECURSIVE JoinParts(_, _)
JoinParts(sep, parts) == IF Len(parts) = 0 THEN <<>>
                         ELSE IF Len(parts) = 1 THEN parts[1]
                         ELSE parts[1] \o <<sep>> \o JoinParts(sep, Tail(parts))

join(sep, list) == IF \E i \in 1..Len(list.v) : list.v[i].t # "str" THEN Raised
                   ELSE Returned(JoinParts(sep, [i \in 1..Len(list.v) |-> <<list.v[i].v>>]))

\* the f-string appended to response for one row
FormatRow(qt, result) ==
    IF qt \in {"director_movies", "actor_movies"}
    THEN Returned(<<PyStr(result["movie"]), " (", PyStr(result["year"]), ") - Rating: ", PyStr(result["rating"])>>)
    ELSE LET directors == join(", ", result["directors"])
             genres == join(", ", result["genres"])
             actors == join(", ", result["actors"])
         IN  IF directors.raised \/ genres.raised \/ actors.raised THEN Raised
             ELSE Returned(<<"Movie: ", PyStr(result["movie"]), " (", PyStr(result["year"]), ")", "\n",
                             "Rating: ", PyStr(result["rating"]), "\n",
                             "Certificate: ", PyStr(result["certificate"]), "\n",
                             "Runtime: ", PyStr(result["runtime"]), "\n",
                             "Directors: ">> \o directors.value \o <<"\n", "Genres: ">> \o genres.value
                             \o <<"\n", "Actors: ">> \o actors.value)

\* format_response testing `results is None` where it tests `not results`: no
\* rows give the join of no lines, the empty str
format_response_unchecked(qt, rows) ==
    LET response == [i \in 1..Len(rows) |-> FormatRow(qt, rows[i])]
    IN  IF \E i \in 1..Len(rows) : response[i].raised THEN Raised
        ELSE Returned(JoinParts("\n", [i \in 1..Len(rows) |-> response[i].value]))

\* format_response building the response with insert(0, ...): last row first
format_response_reversed(qt, rows) ==
    IF Len(rows) = 0 THEN Returned(<<"No results found.">>)
    ELSE LET response == [i \in 1..Len(rows) |-> FormatRow(qt, rows[Len(rows) + 1 - i])]
         IN  IF \E i \in 1..Len(rows) : response[i].raised THEN Raised
             ELSE Returned(JoinParts("\n", [i \in 1..Len(rows) |-> response[i].value]))

\* format_response: the fixed message for no rows, else one entry per row in
\* the order of the rows, joined by line breaks
format_response(qt, rows) ==
    IF Len(rows) = 0 THEN Returned(<<"No results found.">>)
    ELSE LET response == [i \in 1..Len(rows) |-> FormatRow(qt, rows[i])]
         IN  IF \E i \in 1..Len(rows) : response[i].raised THEN Raised
             ELSE Returned(JoinParts("\n", [i \in 1..Len(rows) |-> response[i].value]))

-----------------------------------------------------------------------------
\* The deterministic pipeline: MovieKnowledgeGraphQA under main()

NotUnderstood == <<"I'm sorry, I don't understand that question.">>

AnswerError == <<"I encountered an error while processing your question.">>

NoRun == [query |-> "", bound |-> FALSE, param1 |-> None]

\* the truth value Python gives an Optional[str]
Truthy(p) == p # None /\ Len(p) > 0

\* the log record of execute_query's except clause
ExecuteError(query, p) == [where |-> "execute_query", query |-> query, param |-> p]

\* answer_question without the early return for an unmatched question: the
\* lookup self.question_patterns[None] raises KeyError into the except clause
AnswerQuestionNoEarlyReturn(q) ==
    /\ program = "neo4j_movie_qa"
    /\ pc = "input"
    /\ question' = q
    /\ LET m == match_question(q)
       IN  /\ query_type' = m.query_type
           /\ param' = m.param
           /\ IF m.query_type = "None"
              THEN /\ output' = <<"I encountered an error while processing your question.">>
                   /\ pc' = "returned"
              ELSE /\ output' = <<>>
                   /\ pc' = "execute_query"
    /\ calls' = <<"match_question">>
    /\ raised' = {}
    /\ sent' = [query |-> "", bound |-> FALSE, param1 |-> None]
    /\ records' = <<>>
    /\ results' = <<>>
    /\ logged' = <<>>
    /\ UNCHANGED <<program, sessions, genvars, harnessvars, auxvars>>

\* main reads a question and calls answer_question, which calls match_question
\* and returns the fallback at once when no rule matches
AnswerQuestion(q) ==
    /\ program = "neo4j_movie_qa"
    /\ pc = "input"
    /\ question' = q
    /\ LET m == match_question(q)
       IN  /\ query_type' = m.query_type
           /\ param' = m.param
           /\ IF m.query_type = "None"
              THEN /\ output' = NotUnderstood
                   /\ pc' = "returned"
              ELSE /\ output' = <<>>
                   /\ pc' = "execute_query"
    /\ calls' = <<"match_question">>
    /\ raised' = {}
    /\ sent' = NoRun
    /\ records' = <<>>
    /\ results' = <<>>
    /\ logged' = <<>>
    /\ UNCHANGED <<program, sessions, genvars, harnessvars, auxvars>>

\* execute_query enters its with statement: self.driver.session() gives a
\* session or raises, and the except clause logs and returns []
OpenSession ==
    /\ pc = "execute_query"
    /\ calls' = Append(calls, "execute_query")
    /\ \E ok \in BOOLEAN :
          IF ok
          THEN /\ sessions' = sessions + 1
               /\ pc' = "session.run"
               /\ UNCHANGED <<results, logged, raised>>
          ELSE /\ raised' = raised \cup {"driver.session"}
               /\ results' = <<>>
               /\ logged' = Append(logged, ExecuteError(PatternsOf(query_type).query, param))
               /\ pc' = "format_response"
               /\ UNCHANGED sessions
    /\ UNCHANGED <<program, question, query_type, param, sent, records, output, genvars, harnessvars, auxvars>>

\* the arguments execute_query gives session.run: param1 only for a truthy param
RunArguments(query, p) == IF Truthy(p) THEN [query |-> query, bound |-> TRUE, param1 |-> p]
                          ELSE [query |-> query, bound |-> FALSE, param1 |-> None]

\* execute_query without its except clause: a raise of session.run closes
\* the session and reaches the except clause of answer_question
RunQueryUncaught ==
    /\ pc = "session.run"
    /\ sent' = RunArguments(PatternsOf(query_type).query, param)
    /\ \/ /\ sent'.bound
          /\ \E recs \in StoreResults(sent'.query) : records' = recs
          /\ pc' = "record.data"
          /\ UNCHANGED <<sessions, results, logged, raised, output>>
       \/ /\ raised' = raised \cup {"session.run"}
          /\ sessions' = sessions - 1
          /\ logged' = Append(logged, [where |-> "answer_question", question |-> question])
          /\ output' = <<"I encountered an error while processing your question.">>
          /\ pc' = "returned"
          /\ UNCHANGED <<records, results>>
    /\ UNCHANGED <<program, question, query_type, param, calls, genvars, harnessvars, auxvars>>

\* list(session.run(...)): the store answers with records, or the run raises
\* (always when the query names $param1 and nothing is bound to it); on a
\* raise the with statement closes the session, the except clause logs and
\* execute_query returns []
RunQuery ==
    /\ pc = "session.run"
    /\ sent' = RunArguments(PatternsOf(query_type).query, param)
    /\ \/ /\ sent'.bound
          /\ \E recs \in StoreResults(sent'.query) : records' = recs
          /\ pc' = "record.data"
          /\ UNCHANGED <<sessions, results, logged, raised>>
       \/ /\ raised' = raised \cup {"session.run"}
          /\ sessions' = sessions - 1
          /\ results' = <<>>
          /\ logged' = Append(logged, ExecuteError(sent'.query, param))
          /\ pc' = "format_response"
          /\ UNCHANGED records
    /\ UNCHANGED <<program, question, query_type, param, output, calls, genvars, harnessvars, auxvars>>

\* [record.data() for record in results] and the return out of the with
\* statement, which closes the session; a raise is logged and gives []
ConvertRecords ==
    /\ pc = "record.data"
    /\ sessions' = sessions - 1
    /\ \/ /\ results' = [i \in 1..Len(records) |-> data(records[i])]
          /\ UNCHANGED <<logged, raised>>
       \/ /\ raised' = raised \cup {"record.data"}
          /\ results' = <<>>
          /\ logged' = Append(logged, ExecuteError(sent.query, param))
    /\ pc' = "format_response"
    /\ UNCHANGED <<program, question, query_type, param, sent, records, output, calls, genvars, harnessvars, auxvars>>

\* answer_question formats the rows and returns; its except clause turns a
\* raise of format_response into the error message
FormatResponse ==
    /\ pc = "format_response"
    /\ calls' = Append(calls, "format_response")
    /\ LET r == format_response(query_type, results)
       IN  IF r.raised
           THEN /\ raised' = raised \cup {"format_response"}
                /\ output' = AnswerError
                /\ logged' = Append(logged, [where |-> "answer_question", question |-> question])
           ELSE /\ output' = r.value
                /\ UNCHANGED <<logged, raised>>
    /\ pc' = "returned"
    /\ UNCHANGED <<program, question, query_type, param, sent, records, results, sessions, genvars, harnessvars, auxvars>>

\* the locals of answer_question before it is called
NoQuestion ==
    /\ question = <<>>
    /\ query_type = "None"
    /\ param = None
    /\ sent = NoRun
    /\ records = <<>>
    /\ results = <<>>
    /\ output = <<>>
    /\ logged = <<>>
    /\ calls = <<>>
    /\ raised = {}

\* main prints what answer_question returned and reads the next question;
\* the locals of answer_question are gone
PrintAnswer ==
    /\ pc = "returned"
    /\ pc' = "input"
    /\ question' = <<>>
    /\ query_type' = "None"
    /\ param' = None
    /\ sent' = NoRun
    /\ records' = <<>>
    /\ results' = <<>>
    /\ output' = <<>>
    /\ logged' = <<>>
    /\ calls' = <<>>
    /\ raised' = {}
    /\ UNCHANGED <<program, sessions, genvars, harnessvars, auxvars>>

-----------------------------------------------------------------------------
\* The generative pipeline: EnhancedMovieKnowledgeGraphQA under the main()
\* of llm_movie_qa.py (one caller) or behind the click handler of
\* gradio_movie_qa.py (a caller per request being served)

Threads == {"t1", "t2"}

MainThread == "t1"

Apology == <<"I encountered an error while processing your question. Please try again.">>

GenQuestions == {<<"W", "h", "o", "?">>}

Fence == <<Grave, Grave, Grave>>

QueryText == <<"R", "E", "T", "U", "R", "N", " ", "1">>

\* message contents the model can answer a query request with
QueryCompletions == {QueryText \o <<"\n">>,
                     Fence \o <<"\n">> \o QueryText \o <<"\n">> \o Fence,
                     Fence \o <<"c", "y", "p", "h", "e", "r", "\n">> \o QueryText \o <<"\n">> \o Fence \o <<"\n">>}

\* message contents the model can answer an answer request with
AnswerCompletions == {<<"O", "k", ".">>, <<" ", "N", "o", "n", "e", ".", "\n">>}

\* the sanitizing of generate_cypher_query: strip, and when the text starts
\* with three grave accents, strip grave accents and strip again
Sanitize(content) == LET query == strip(content, Whitespace)
                     IN  IF startswith(query, Fence) THEN strip(strip(query, {Grave}), Whitespace)
                         ELSE query

\* the record sequences the store can produce for a generated query
GenStoreResults == {recs \in SeqsUpTo(ListRecords, 2) : Len(recs) = 2 => recs[1] # recs[2]}

NotComposed == <<"not called">>

\* a caller enters handle_complex_query, and generate_cypher_query sends its
\* request to the model
HandleComplexQuery(t, q) ==
    /\ \/ program = "gradio_movie_qa"
       \/ program = "llm_movie_qa" /\ t = MainThread
    /\ gpc[t] = "input"
    /\ gquestion' = [gquestion EXCEPT ![t] = q]
    /\ cypher_query' = [cypher_query EXCEPT ![t] = None]
    /\ grecords' = [grecords EXCEPT ![t] = <<>>]
    /\ query_results' = [query_results EXCEPT ![t] = <<>>]
    /\ composed' = [composed EXCEPT ![t] = NotComposed]
    /\ answer' = [answer EXCEPT ![t] = <<>>]
    /\ glogged' = [glogged EXCEPT ![t] = <<>>]
    /\ gcalls' = [gcalls EXCEPT ![t] = <<"generate_cypher_query">>]
    /\ graised' = [graised EXCEPT ![t] = {}]
    /\ gpc' = [gpc EXCEPT ![t] = "generate_cypher_query"]
    /\ UNCHANGED <<program, sessions, detvars, harnessvars, auxvars>>

\* the except clause of handle_complex_query, reached by a raise of call
GiveApology(t, call) ==
    /\ graised' = [graised EXCEPT ![t] = @ \cup {call}]
    /\ answer' = [answer EXCEPT ![t] = Apology]
    /\ glogged' = [glogged EXCEPT ![t] = Append(@, [where |-> "handle_complex_query", question |-> gquestion[t]])]
    /\ gpc' = [gpc EXCEPT ![t] = "returned"]

\* the model's completion arrives and is sanitized, or the call raises and
\* handle_complex_query returns the apology
GenerateCypherQuery(t) ==
    /\ gpc[t] = "generate_cypher_query"
    /\ \/ \E content \in QueryCompletions :
             /\ cypher_query' = [cypher_query EXCEPT ![t] = Sanitize(content)]
             /\ gpc' = [gpc EXCEPT ![t] = "execute_query"]
             /\ UNCHANGED <<answer, glogged, graised>>
       \/ /\ GiveApology(t, "generate_cypher_query")
          /\ UNCHANGED cypher_query
    /\ UNCHANGED <<program, sessions, detvars, harnessvars, auxvars, gquestion, grecords, query_results, composed, gcalls>>

\* execute_query has returned rows to handle_complex_query, which calls
\* generate_context_aware_answer with them: the request goes to the model
ReturnRows(t, rows) ==
    /\ query_results' = [query_results EXCEPT ![t] = rows]
    /\ composed' = [composed EXCEPT ![t] = rows]
    /\ gpc' = [gpc EXCEPT ![t] = "generate_context_aware_answer"]

\* the except clause of execute_query, reached by a raise of call: log the
\* query, return []
ExecuteFailed(t, call) ==
    /\ graised' = [graised EXCEPT ![t] = @ \cup {call}]
    /\ glogged' = [glogged EXCEPT ![t] = Append(@, [where |-> "execute_query", query |-> cypher_query[t]])]
    /\ ReturnRows(t, <<>>)

\* execute_query enters its with statement
GenOpenSession(t) ==
    /\ gpc[t] = "execute_query"
    /\ \/ /\ sessions' = sessions + 1
          /\ gpc' = [gpc EXCEPT ![t] = "session.run"]
          /\ gcalls' = [gcalls EXCEPT ![t] = Append(@, "execute_query")]
          /\ UNCHANGED <<query_results, composed, glogged, graised>>
       \/ /\ ExecuteFailed(t, "driver.session")
          /\ gcalls' = [gcalls EXCEPT ![t] = @ \o <<"execute_query", "generate_context_aware_answer">>]
          /\ UNCHANGED sessions
    /\ UNCHANGED <<program, detvars, harnessvars, auxvars, gquestion, cypher_query, grecords, answer>>

\* execute_query with session.close() after the run instead of a with
\* statement: a raise of session.run leaves the session open
GenRunQueryLeak(t) ==
    /\ gpc[t] = "session.run"
    /\ \/ /\ \E recs \in GenStoreResults : grecords' = [grecords EXCEPT ![t] = recs]
          /\ gpc' = [gpc EXCEPT ![t] = "record.data"]
          /\ UNCHANGED <<sessions, query_results, composed, glogged, gcalls, graised>>
       \/ /\ ExecuteFailed(t, "session.run")
          /\ gcalls' = [gcalls EXCEPT ![t] = Append(@, "generate_context_aware_answer")]
          /\ UNCHANGED <<sessions, grecords>>
    /\ UNCHANGED <<program, detvars, harnessvars, auxvars, gquestion, cypher_query, answer>>

\* list(session.run(cypher_query)): records, or a raise, which closes the
\* session on the way to the except clause
GenRunQuery(t) ==
    /\ gpc[t] = "session.run"
    /\ \/ /\ \E recs \in GenStoreResults : grecords' = [grecords EXCEPT ![t] = recs]
          /\ gpc' = [gpc EXCEPT ![t] = "record.data"]
          /\ UNCHANGED <<sessions, query_results, composed, glogged, gcalls, graised>>
       \/ /\ sessions' = sessions - 1
          /\ ExecuteFailed(t, "session.run")
          /\ gcalls' = [gcalls EXCEPT ![t] = Append(@, "generate_context_aware_answer")]
          /\ UNCHANGED grecords
    /\ UNCHANGED <<program, detvars, harnessvars, auxvars, gquestion, cypher_query, answer>>

\* execute_query catching nothing: a raise of the conversion closes the
\* session and reaches the except clause of handle_complex_query
GenConvertRecordsUncaught(t) ==
    /\ gpc[t] = "record.data"
    /\ sessions' = sessions - 1
    /\ \/ /\ ReturnRows(t, [i \in 1..Len(grecords[t]) |-> data(grecords[t][i])])
          /\ gcalls' = [gcalls EXCEPT ![t] = Append(@, "generate_context_aware_answer")]
          /\ UNCHANGED <<glogged, graised, answer>>
       \/ /\ GiveApology(t, "record.data")
          /\ UNCHANGED <<query_results, composed, gcalls>>
    /\ UNCHANGED <<program, detvars, harnessvars, auxvars, gquestion, cypher_query, grecords>>

\* the records are converted and returned out of the with statement, which
\* closes the session; a raise is logged and gives []
GenConvertRecords(t) ==
    /\ gpc[t] = "record.data"
    /\ sessions' = sessions - 1
    /\ \/ /\ ReturnRows(t, [i \in 1..Len(grecords[t]) |-> data(grecords[t][i])])
          /\ UNCHANGED <<glogged, graised>>
       \/ ExecuteFailed(t, "record.data")
    /\ gcalls' = [gcalls EXCEPT ![t] = Append(@, "generate_context_aware_answer")]
    /\ UNCHANGED <<program, detvars, harnessvars, auxvars, gquestion, cypher_query, grecords, answer>>

\* the model's answer arrives and is returned stripped, or the call raises
\* and handle_complex_query returns the apology
GenerateAnswer(t) ==
    /\ gpc[t] = "generate_context_aware_answer"
    /\ \/ \E content \in AnswerCompletions :
             /\ answer' = [answer EXCEPT ![t] = strip(content, Whitespace)]
             /\ gpc' = [gpc EXCEPT ![t] = "returned"]
             /\ UNCHANGED <<glogged, graised>>
       \/ GiveApology(t, "generate_context_aware_answer")
    /\ UNCHANGED <<program, sessions, detvars, harnessvars, auxvars, gquestion, cypher_query, grecords, query_results, composed, gcalls>>

\* the caller takes the answer (main prints it, process_query appends it to
\* the history it returns) and handle_complex_query's locals are gone
DeliverAnswer(t) ==
    /\ gpc[t] = "returned"
    /\ gpc' = [gpc EXCEPT ![t] = "input"]
    /\ gquestion' = [gquestion EXCEPT ![t] = <<>>]
    /\ cypher_query' = [cypher_query EXCEPT ![t] = None]
    /\ grecords' = [grecords EXCEPT ![t] = <<>>]
    /\ query_results' = [query_results EXCEPT ![t] = <<>>]
    /\ composed' = [composed EXCEPT ![t] = NotComposed]
    /\ answer' = [answer EXCEPT ![t] = <<>>]
    /\ glogged' = [glogged EXCEPT ![t] = <<>>]
    /\ gcalls' = [gcalls EXCEPT ![t] = <<>>]
    /\ graised' = [graised EXCEPT ![t] = {}]
    /\ UNCHANGED <<program, sessions, detvars, harnessvars, auxvars>>

-----------------------------------------------------------------------------
\* get_question_intent (llm_movie_qa.py).  The text of a completion is
\* written lexeme by lexeme here: a brace, a bracket, a colon, a comma, the
\* literal null, a quoted string, a whitespace character, a grave accent or a
\* word of prose each take one position of the sequence.

PyNone == [t |-> "NoneType", v |-> <<>>]

\* a dict is its items in insertion order, the keys distinct
PyDict(items) == [t |-> "dict", v |-> items]

\* the quoted strings a completion is written with, and the str each denotes
Unquote == ("\"primary_intent\"" :> "primary_intent") @@ ("\"entities\"" :> "entities") @@
           ("\"movies\"" :> "movies") @@ ("\"intent\"" :> "intent") @@
           ("\"movie_search\"" :> "movie_search") @@ ("\"Inception\"" :> "Inception")

Quote(s) == CHOOSE q \in DOMAIN Unquote : Unquote[q] = s

\* dict[key] = value
SetItem(items, key, value) ==
    IF \E i \in 1..Len(items) : items[i][1] = key
    THEN [i \in 1..Len(items) |-> IF items[i][1] = key THEN <<key, value>> ELSE items[i]]
    ELSE Append(items, <<key, value>>)

\* the decoder skips whitespace between the lexemes
Lexemes(s) == SelectSeq(s, LAMBDA c : c \notin Whitespace)

JSONDecodeError == [ok |-> FALSE, value |-> PyNone, end |-> 0]

Decoded(value, end) == [ok |-> TRUE, value |-> value, end |-> end]

\* json.decoder: the value starting at lexeme i, and the position after it
RECURSIVE scan_once(_, _), JSONObject(_, _, _), JSONArray(_, _, _)
scan_once(toks, i) ==
    IF i > Len(toks) THEN JSONDecodeError
    ELSE IF toks[i] \in DOMAIN Unquote THEN Decoded(PyText(Unquote[toks[i]]), i + 1)
    ELSE IF toks[i] = "{" THEN JSONObject(toks, i + 1, <<>>)
    ELSE IF toks[i] = "[" THEN JSONArray(toks, i + 1, <<>>)
    ELSE IF toks[i] = "null" THEN Decoded(PyNone, i + 1)
    ELSE JSONDecodeError

\* the members of an object from lexeme i on, items being those already read
JSONObject(toks, i, items) ==
    IF i <= Len(toks) /\ toks[i] = "}" /\ items = <<>> THEN Decoded(PyDict(items), i + 1)
    ELSE IF i + 1 > Len(toks) THEN JSONDecodeError
    ELSE IF toks[i] \notin DOMAIN Unquote \/ toks[i + 1] # ":" THEN JSONDecodeError
    ELSE LET member == scan_once(toks, i + 2)
             read == SetItem(items, Unquote[toks[i]], member.value)
         IN  IF ~member.ok \/ member.end > Len(toks) THEN JSONDecodeError
             ELSE IF toks[member.end] = "}" THEN Decoded(PyDict(read), member.end + 1)
             ELSE IF toks[member.end] = "," THEN JSONObject(toks, member.end + 1, read)
             ELSE JSONDecodeError

\* the elements of an array from lexeme i on, values being those already read
JSONArray(toks, i, values) ==
    IF i <= Len(toks) /\ toks[i] = "]" /\ values = <<>> THEN Decoded(PyList(values), i + 1)
    ELSE LET element == scan_once(toks, i)
             read == Append(values, element.value)
         IN  IF ~element.ok \/ element.end > Len(toks) THEN JSONDecodeError
             ELSE IF toks[element.end] = "]" THEN Decoded(PyList(read), element.end + 1)
             ELSE IF toks[element.end] = "," THEN JSONArray(toks, element.end + 1, read)
             ELSE JSONDecodeError

\* json.loads(s): one value and nothing after it, or JSONDecodeError
json_loads(s) ==
    LET toks == Lexemes(s)
        obj == scan_once(toks, 1)
    IN  IF obj.ok /\ obj.end = Len(toks) + 1 THEN Returned(obj.value) ELSE Raised

\* the mapping of the except clause
NeutralIntent == PyDict(<< <<"primary_intent", PyNone>>, <<"entities", PyDict(<<>>)>> >>)

\* get_question_intent: the value returned and whether the error was logged
get_question_intent(create) ==
    LET loaded == IF create.raised \/ create.content = None THEN Raised
                  ELSE json_loads(strip(create.content, Whitespace))
    IN  IF loaded.raised THEN [returned |-> TRUE, value |-> NeutralIntent, logged |-> TRUE]
        ELSE [returned |-> TRUE, value |-> loaded.value, logged |-> FALSE]

\* the same with the loaded value tested against the documented mapping
IsIntentMapping(value) ==
    /\ value.t = "dict"
    /\ {value.v[i][1] : i \in 1..Len(value.v)} = {"primary_intent", "entities"}
    /\ \A i \in 1..Len(value.v) :
          /\ value.v[i][1] = "primary_intent" => value.v[i][2].t \in {"str", "NoneType"}
          /\ value.v[i][1] = "entities" =>
                /\ value.v[i][2].t = "dict"
                /\ \A j \in 1..Len(value.v[i][2].v) : value.v[i][2].v[j][2].t = "list"

\* json.dumps(value), the way a model writes the JSON it was asked for
RECURSIVE json_dumps(_), DumpItems(_, _), DumpElements(_, _)
json_dumps(value) ==
    CASE value.t = "NoneType" -> <<"null">>
      [] value.t = "str" -> <<Quote(value.v)>>
      [] value.t = "list" -> <<"[">> \o DumpElements(value.v, 1) \o <<"]">>
      [] value.t = "dict" -> <<"{">> \o DumpItems(value.v, 1) \o <<"}">>

DumpItems(items, i) ==
    IF i > Len(items) THEN <<>>
    ELSE <<Quote(items[i][1]), ":", " ">> \o json_dumps(items[i][2])
         \o (IF i < Len(items) THEN <<",", " ">> ELSE <<>>) \o DumpItems(items, i + 1)

DumpElements(values, i) ==
    IF i > Len(values) THEN <<>>
    ELSE json_dumps(values[i])
         \o (IF i < Len(values) THEN <<",", " ">> ELSE <<>>) \o DumpElements(values, i + 1)

\* JSON values a model can answer the intent request with: the mapping asked
\* for, and values that are JSON of another shape
IntentValues ==
    {PyDict(<< <<"primary_intent", PyText("movie_search")>>,
               <<"entities", PyDict(<< <<"movies", PyList(<<PyText("Inception")>>)>> >>)>> >>),
     PyDict(<< <<"primary_intent", PyNone>>, <<"entities", PyDict(<<>>)>> >>),
     PyDict(<< <<"primary_intent", PyText("movie_search")>> >>),
     PyDict(<< <<"intent", PyText("movie_search")>>, <<"movies", PyList(<<PyText("Inception")>>)>> >>),
     PyDict(<< <<"primary_intent", PyText("movie_search")>>, <<"entities", PyList(<<PyText("Inception")>>)>> >>),
     PyDict(<<>>),
     PyList(<<PyText("movie_search"), PyText("Inception")>>),
     PyText("movie_search"),
     PyNone}

\* the texts a model can write for a value: the JSON alone, padded, cut off
\* at any lexeme, after a sentence of prose, or inside a fenced block
IntentTexts(value) ==
    LET text == json_dumps(value)
    IN  {SubSeq(text, 1, n) : n \in 0..Len(text)}
        \cup {<<"\n">> \o text \o <<"\n">>,
              <<"Sure", ":", "\n">> \o text,
              Fence \o <<"json", "\n">> \o text \o <<"\n">> \o Fence,
              text \o <<",">>,
              <<"{">> \o <<Quote("intent"), ":">> \o text \o <<",", Quote("intent"), ":">> \o text \o <<"}">>}

\* what chat.completions.create does: it raises, or it returns a message
\* whose content is a text or None
IntentCompletions ==
    {[raised |-> TRUE, content |-> <<>>], [raised |-> FALSE, content |-> None]}
    \cup {[raised |-> FALSE, content |-> text] : text \in UNION {IntentTexts(value) : value \in IntentValues}}

NoIntent == [returned |-> FALSE, value |-> PyNone, logged |-> FALSE]

NoCompletion == [raised |-> FALSE, content |-> <<>>]

\* a call of get_question_intent, start to return
GetQuestionIntent ==
    /\ intent = NoIntent
    /\ intent' = get_question_intent(completion)
    /\ UNCHANGED <<program, sessions, detvars, genvars, harnessvars, completion, sanitizevars, loadvars>>

-----------------------------------------------------------------------------
\* The sanitizing of generate_cypher_query on its own.  A reply is kept as the
\* pieces the model wrote it from; the message content is their concatenation.

Content(r) == r.lead \o r.open \o r.tag \o r.body \o r.close \o r.trail

\* a query that ends with a quoted identifier
QuotedQueryText == <<"R", "E", "T", "U", "R", "N", " ", "m", ".", Grave, "n", Grave>>

\* message contents the model can answer a query request with: a query, on
\* its own line or not, bare or in a fenced block with or without a language
\* tag, after a line of prose or not, with the closing fence or cut off before it
SanitizeReplies ==
    {[lead |-> lead, open |-> open, tag |-> tag, body |-> body, close |-> close, trail |-> trail] :
        lead \in {<<>>, <<"\n">>, <<"Q", ":", "\n">>},
        open \in {<<>>, Fence},
        tag \in {<<>>, <<"c", "y", "p", "h", "e", "r", "\n">>},
        body \in {QueryText, <<"\n">> \o QueryText \o <<"\n">>, QuotedQueryText},
        close \in {<<>>, Fence},
        trail \in {<<>>, <<"\n">>}}

\* lines 112-116 of a call of generate_cypher_query, for the reply of the model
SanitizeReply ==
    /\ generated = None
    /\ generated' = Sanitize(Content(reply))
    /\ UNCHANGED <<program, sessions, detvars, genvars, harnessvars, intentvars, reply, loadvars>>

-----------------------------------------------------------------------------
\* The loader (build_neo4j_imdb_graph.py).  The store is a property graph:
\* the nodes of each label in the order they were created, a node being known
\* by its label and its position, and the relationships in the order they
\* were created, each with its type, its start node and its end node.

EmptyGraph == [movies |-> <<>>, persons |-> <<>>, genres |-> <<>>, rels |-> <<>>]

\* float('nan'): what pandas puts in a cell the file leaves empty
NaN == [t |-> "nan", v |-> 0]

Text(chars) == [t |-> "str", v |-> chars]

\* str.split(sep)
RECURSIVE split(_, _)
split(s, sep) ==
    IF \E i \in 1..Len(s) : s[i] = sep
    THEN LET i == CHOOSE k \in 1..Len(s) : s[k] = sep /\ \A j \in 1..(k - 1) : s[j] # sep
         IN  <<SubSeq(s, 1, i - 1)>> \o split(SubSeq(s, i + 1, Len(s)), sep)
    ELSE <<s>>

\* the elements of a set, one after the other
RECURSIVE SetToSeq(_)
SetToSeq(S) == IF S = {} THEN <<>>
               ELSE LET x == CHOOSE y \in S : TRUE IN <<x>> \o SetToSeq(S \ {x})

\* MATCH (m:Movie {id: $movie_id}): the Movie nodes bound to m
MatchMovie(g, movie_id) == {i \in 1..Len(g.movies) : g.movies[i].id = movie_id}

\* MERGE (m:Movie {id: $rank}) SET m.name = $name, ...: the properties are
\* written to the node that has the id, which is created when there is none
create_movie_node(g, movie_data) ==
    LET node == [id |-> movie_data.rank, name |-> movie_data.name, year |-> movie_data.year,
                 rating |-> movie_data.rating, certificate |-> movie_data.certificate,
                 run_time |-> movie_data.run_time, tagline |-> movie_data.tagline,
                 budget |-> movie_data.budget, box_office |-> movie_data.box_office]
    IN  IF MatchMovie(g, movie_data.rank) = {} THEN [g EXCEPT !.movies = Append(@, node)]
        ELSE [g EXCEPT !.movies = [i \in 1..Len(@) |-> IF @[i].id = movie_data.rank THEN node ELSE @[i]]]

\* MERGE (n:label {name: $name}) on the nodes of one label
MergeNode(nodes, name) == IF \E i \in 1..Len(nodes) : nodes[i] = name THEN nodes ELSE Append(nodes, name)

\* MERGE (a)-[:type]->(b) for every pair of bound nodes: a relationship is
\* created between the pairs that have none of the type
MergeRels(rels, type, starts, ends) ==
    LET wanted == {[type |-> type, start |-> a, end |-> b] : a \in starts, b \in ends}
    IN  rels \o SetToSeq({r \in wanted : \A i \in 1..Len(rels) : rels[i] # r})

\* one run of the query of create_genre_relationships
RunGenre(g, movie_id, genre) ==
    LET ms == MatchMovie(g, movie_id)
        merged == MergeNode(g.genres, genre)
        gs == {j \in 1..Len(merged) : merged[j] = genre}
    IN  IF ms = {} THEN g
        ELSE [g EXCEPT !.genres = merged,
                       !.rels = MergeRels(@, "BELONGS_TO", {<<"Movie", i>> : i \in ms}, {<<"Genre", j>> : j \in gs})]

\* a Person node made without looking for the name
RunPersonCreate(g, movie_id, role_type, person) ==
    LET ms == MatchMovie(g, movie_id)
        made == Append(g.persons, person)
    IN  IF ms = {} THEN g
        ELSE [g EXCEPT !.persons = made,
                       !.rels = MergeRels(@, role_type, {<<"Person", Len(made)>>}, {<<"Movie", i>> : i \in ms})]

\* one run of the query of create_person_relationships
RunPerson(g, movie_id, role_type, person) ==
    LET ms == MatchMovie(g, movie_id)
        merged == MergeNode(g.persons, person)
        ps == {j \in 1..Len(merged) : merged[j] = person}
    IN  IF ms = {} THEN g
        ELSE [g EXCEPT !.persons = merged,
                       !.rels = MergeRels(@, role_type, {<<"Person", j>> : j \in ps}, {<<"Movie", i>> : i \in ms})]

\* for genre in genres: tx.run(query, movie_id=movie_id, genre=genre.strip())
RECURSIVE create_genre_relationships(_, _, _)
create_genre_relationships(g, movie_id, genres) ==
    IF genres = <<>> THEN g
    ELSE create_genre_relationships(RunGenre(g, movie_id, strip(Head(genres), Whitespace)), movie_id, Tail(genres))

\* for person in persons: tx.run(query, movie_id=movie_id, person=person.strip())
RECURSIVE create_person_relationships(_, _, _, _)
create_person_relationships(g, movie_id, role_type, persons) ==
    IF persons = <<>> THEN g
    ELSE create_person_relationships(RunPerson(g, movie_id, role_type, strip(Head(persons), Whitespace)),
                                     movie_id, role_type, Tail(persons))

\* the body of the loop of import_data for one row.  int() of a NaN raises
\* before anything is written; split is no attribute of a NaN, so a row with
\* an empty list cell is given up at that cell, what was written before it
\* staying written (each execute_write is a transaction of its own).
ProcessRow(g, row) ==
    IF row.rank = NaN \/ row.year = NaN THEN g
    ELSE LET movie_data == [rank |-> row.rank.v, name |-> row.name, year |-> row.year.v, rating |-> row.rating,
                            certificate |-> row.certificate, run_time |-> row.run_time, tagline |-> row.tagline,
                            budget |-> row.budget, box_office |-> row.box_office]
             g1 == create_movie_node(g, movie_data)
             g2 == create_genre_relationships(g1, movie_data.rank, split(row.genre.v, ","))
             g3 == create_person_relationships(g2, movie_data.rank, "DIRECTED", split(row.directors.v, ","))
             g4 == create_person_relationships(g3, movie_data.rank, "WROTE", split(row.writers.v, ","))
             g5 == create_person_relationships(g4, movie_data.rank, "ACTED_IN", split(row.casts.v, ","))
         IN  IF row.genre = NaN THEN g1
             ELSE IF row.directors = NaN THEN g2
             ELSE IF row.writers = NaN THEN g3
             ELSE IF row.casts = NaN THEN g4
             ELSE g5

\* rows a file can hold: two movies that share a genre and a person, a
\* second row for the first rank, a row with an empty list cell and a row
\* without a rank
Inception == [rank |-> PyInt(1), name |-> Text(<<"I">>), year |-> PyInt(2010), rating |-> PyFloat(88),
              certificate |-> Text(<<"U", "A">>), run_time |-> Text(<<"2", "h">>), tagline |-> NaN,
              budget |-> Text(<<"1", "6", "0">>), box_office |-> Text(<<"8", "3", "6">>),
              genre |-> Text(<<"A", ",", " ", "B">>), directors |-> Text(<<"N">>),
              writers |-> Text(<<"N", ",", "J">>), casts |-> Text(<<"L", ",", " ", "E">>)]

SourceRows ==
    {Inception,
     [Inception EXCEPT !.rank = PyInt(2), !.name = Text(<<"M">>), !.year = PyInt(2000),
                       !.genre = Text(<<"B", ",", "B">>), !.writers = NaN, !.casts = Text(<<"G">>)],
     [Inception EXCEPT !.name = Text(<<"I", "I">>), !.genre = Text(<<"B">>), !.directors = Text(<<"J">>),
                       !.writers = Text(<<"J">>), !.casts = Text(<<"L">>)],
     [Inception EXCEPT !.rank = NaN]}

\* pd.read_csv and the start of the loop, in a run of the program: the store
\* keeps what earlier runs wrote
ReadCsv(df) ==
    /\ pending = <<>>
    /\ Len(history) + Len(df) <= MaxImports
    /\ pending' = df
    /\ UNCHANGED <<program, sessions, detvars, genvars, harnessvars, intentvars, sanitizevars, graph, history>>

\* one iteration of the loop of import_data
ImportRow ==
    /\ pending # <<>>
    /\ graph' = ProcessRow(graph, Head(pending))
    /\ pending' = Tail(pending)
    /\ history' = Append(history, Head(pending))
    /\ UNCHANGED <<program, sessions, detvars, genvars, harnessvars, intentvars, sanitizevars>>

-----------------------------------------------------------------------------
\* The matcher on its own: a question, then its case and whitespace variants

Vary(kind, left, right) ==
    /\ varq = refq
    /\ varq' = left \o Recase(kind, refq) \o right
    /\ varres' = match_question(varq')
    /\ UNCHANGED <<program, sessions, detvars, genvars, refq, refres, auxvars>>

-----------------------------------------------------------------------------
Programs == {"neo4j_movie_qa", "llm_movie_qa", "gradio_movie_qa"}

\* the state after __init__: a driver without sessions, no question read yet
InitPipelines ==
    /\ sessions = 0
    /\ pc = "input"
    /\ NoQuestion
    /\ gpc = [t \in Threads |-> "input"]
    /\ gquestion = [t \in Threads |-> <<>>]
    /\ cypher_query = [t \in Threads |-> None]
    /\ grecords = [t \in Threads |-> <<>>]
    /\ query_results = [t \in Threads |-> <<>>]
    /\ composed = [t \in Threads |-> NotComposed]
    /\ answer = [t \in Threads |-> <<>>]
    /\ glogged = [t \in Threads |-> <<>>]
    /\ gcalls = [t \in Threads |-> <<>>]
    /\ graised = [t \in Threads |-> {}]

NoReply == [lead |-> <<>>, open |-> <<>>, tag |-> <<>>, body |-> <<>>, close |-> <<>>, trail |-> <<>>]

\* get_question_intent is not being called
IntentIdle == completion = NoCompletion /\ intent = NoIntent

\* the sanitizing of generate_cypher_query is not being run on its own
SanitizeIdle == reply = NoReply /\ generated = None

\* the loader has not run: an empty store and no data frame
LoadIdle == graph = EmptyGraph /\ pending = <<>> /\ history = <<>>

Init ==
    /\ program \in Programs
    /\ InitPipelines
    /\ refq = <<>>
    /\ refres = match_question(refq)
    /\ varq = refq
    /\ varres = refres
    /\ IntentIdle
    /\ SanitizeIdle
    /\ LoadIdle

Next ==
    \/ \E q \in Questions : AnswerQuestion(q)
    \/ OpenSession
    \/ RunQuery
    \/ ConvertRecords
    \/ FormatResponse
    \/ PrintAnswer
    \/ \E t \in Threads, q \in GenQuestions : HandleComplexQuery(t, q)
    \/ \E t \in Threads : GenerateCypherQuery(t)
    \/ \E t \in Threads : GenOpenSession(t)
    \/ \E t \in Threads : GenRunQuery(t)
    \/ \E t \in Threads : GenConvertRecords(t)
    \/ \E t \in Threads : GenerateAnswer(t)
    \/ \E t \in Threads : DeliverAnswer(t)

Spec == Init /\ [][Next]_vars

InitMatch ==
    /\ program = "neo4j_movie_qa"
    /\ InitPipelines
    /\ refq \in Questions
    /\ refres = match_question(refq)
    /\ varq = refq
    /\ varres = refres
    /\ IntentIdle
    /\ SanitizeIdle
    /\ LoadIdle

NextMatch == \E kind \in CaseKinds, left \in Pads, right \in Pads : Vary(kind, left, right)

SpecMatch == InitMatch /\ [][NextMatch]_vars

\* get_question_intent on its own: one call for each thing the model can do
InitIntent ==
    /\ program = "llm_movie_qa"
    /\ InitPipelines
    /\ refq = <<>>
    /\ refres = match_question(refq)
    /\ varq = refq
    /\ varres = refres
    /\ completion \in IntentCompletions
    /\ intent = NoIntent
    /\ SanitizeIdle
    /\ LoadIdle

NextIntent == GetQuestionIntent

SpecIntent == InitIntent /\ [][NextIntent]_vars

\* the sanitizing on its own: one call for each reply; a language tag is
\* written only after an opening fence
InitSanitize ==
    /\ program = "llm_movie_qa"
    /\ InitPipelines
    /\ refq = <<>>
    /\ refres = match_question(refq)
    /\ varq = refq
    /\ varres = refres
    /\ IntentIdle
    /\ reply \in {r \in SanitizeReplies : r.tag # <<>> => r.open = Fence}
    /\ generated = None
    /\ LoadIdle

NextSanitize == SanitizeReply

SpecSanitize == InitSanitize /\ [][NextSanitize]_vars

\* the loader on its own: runs of the program, one after the other, each on
\* a file of rows
InitLoad ==
    /\ program = "build_neo4j_imdb_graph"
    /\ InitPipelines
    /\ refq = <<>>
    /\ refres = match_question(refq)
    /\ varq = refq
    /\ varres = refres
    /\ IntentIdle
    /\ SanitizeIdle
    /\ LoadIdle

NextLoad ==
    \/ \E df \in SeqsUpTo(SourceRows, MaxImports) \ {<<>>} : ReadCsv(df)
    \/ ImportRow

SpecLoad == InitLoad /\ [][NextLoad]_vars

-----------------------------------------------------------------------------
\* Properties

Range(seq) == {seq[i] : i \in 1..Len(seq)}

\* the calls inside execute_query that can raise
ExecuteSteps == {"driver.session", "session.run", "record.data"}

\* the positions inside the with statement of execute_query
InWith == {"session.run", "record.data"}

\* rows are the dicts of the records recs, one per record, in order
RowsOf(rows, recs) ==
    /\ Len(rows) = Len(recs)
    /\ \A i \in 1..Len(recs) :
          \A k \in 1..Len(recs[i].keys) : rows[i][recs[i].keys[k]] = recs[i].values[k]

\* C1 (as claimed): whenever a step of either orchestrator raises into the
\* orchestrator's except clause, the call returns the one fixed string
\* "I encountered an error while processing your question. Please try again."
C1_FailureGivesApology ==
    /\ (pc = "returned" /\ "format_response" \in raised) => output = Apology
    /\ \A t \in Threads :
          (gpc[t] = "returned" /\ graised[t] \ ExecuteSteps # {}) => answer[t] = Apology

\* C2: execute_query of either class never lets a failure reach its caller:
\* when the session, the run or the record conversion raised, it has logged
\* the query and returns the empty sequence, and the caller goes on with its
\* next step; otherwise it returns the store's rows in the store's order.
C2_ExecuteQueryFailsSoft ==
    /\ pc = "format_response" =>
          IF raised # {}
          THEN results = <<>> /\ ExecuteError(PatternsOf(query_type).query, param) \in Range(logged)
          ELSE RowsOf(results, records) /\ logged = <<>>
    /\ (pc = "returned" /\ raised \cap ExecuteSteps # {}) => "format_response" \in Range(calls)
    /\ \A t \in Threads :
          /\ gpc[t] = "generate_context_aware_answer" =>
                IF graised[t] # {}
                THEN /\ query_results[t] = <<>>
                     /\ [where |-> "execute_query", query |-> cypher_query[t]] \in Range(glogged[t])
                ELSE RowsOf(query_results[t], grecords[t]) /\ glogged[t] = <<>>
          /\ (gpc[t] = "returned" /\ graised[t] \cap ExecuteSteps # {}) =>
                "generate_context_aware_answer" \in Range(gcalls[t])

C2_Witness ==
    /\ pc = "format_response"
    /\ "record.data" \in raised
    /\ Len(records) = MaxRows
    /\ results = <<>>
    /\ Len(logged) = 1

\* C3: the open sessions are exactly those of the calls of execute_query that
\* are inside the with statement, at most one per question in flight; none
\* is open once execute_query has returned, whichever way it returned.
C3_SessionsReleased ==
    sessions = (IF pc \in InWith THEN 1 ELSE 0) + Cardinality({t \in Threads : gpc[t] \in InWith})

C3_Witness ==
    /\ sessions = 0
    /\ \E t \in Threads : gpc[t] = "generate_context_aware_answer" /\ "session.run" \in graised[t]
    /\ \E t \in Threads : gpc[t] = "returned" /\ graised[t] = {}

\* no regex of the table matches the stripped question
NoRegexMatches(q) ==
    \A t \in 1..Len(question_patterns) : \A k \in 1..Len(question_patterns[t].patterns) :
        ~re_match(question_patterns[t].patterns[k], strip(q, Whitespace)).matched

\* C4: a question that no regex matches gets (None, None) from
\* match_question, and answer_question returns the fixed fallback string at
\* once: no query is run, no session opened, nothing formatted.
C4_UnmatchedFallsBack ==
    pc # "input" =>
       /\ NoRegexMatches(question) => (query_type = "None" /\ param = None)
       /\ query_type = "None" =>
             /\ pc = "returned"
             /\ output = NotUnderstood
             /\ calls = <<"match_question">>
             /\ sent = NoRun
             /\ sessions = 0

C4_Witness ==
    /\ pc = "returned"
    /\ Len(question) > 0
    /\ NoRegexMatches(question)
    /\ output = NotUnderstood

\* the regexes of the table, as <<intent index, regex index>>, that match s
Matching(s) ==
    {r \in (1..Len(question_patterns)) \X (1..3) : re_match(question_patterns[r[1]].patterns[r[2]], s).matched}

\* table order
Before(a, b) == a[1] < b[1] \/ (a[1] = b[1] /\ a[2] < b[2])

FirstMatching(s) == CHOOSE a \in Matching(s) : \A b \in Matching(s) \ {a} : Before(a, b)

\* the text the first matching regex captures in s
Captured(s) == re_match(question_patterns[FirstMatching(s)[1]].patterns[FirstMatching(s)[2]], s).group1

\* some regex's leading literal is at position 0 of s, case ignored
AnchoredSomewhere(s) ==
    \E t \in 1..Len(question_patterns) : \E k \in 1..3 :
       LET pre == question_patterns[t].patterns[k].pre
       IN  Len(s) >= Len(pre) /\ \A i \in 1..Len(pre) : Lower(s[i]) = Lower(pre[i])

\* C5: match_question answers with the intent of the first regex, in table
\* order (director_movies, actor_movies, movie_info, and the listed order
\* inside an intent), that matches the trimmed question from position 0;
\* later regexes that also match are not consulted, and a question in which
\* a regex only occurs further inside is not matched.
C5_FirstMatchWins ==
    LET s == strip(varq, Whitespace)
    IN  /\ Matching(s) = {} => varres.query_type = "None"
        /\ Matching(s) # {} =>
              varres.query_type = question_patterns[FirstMatching(s)[1]].query_type
        /\ varres.query_type # "None" => AnchoredSomewhere(s)

C5_Witness ==
    LET s == strip(varq, Whitespace)
    IN  /\ \E a \in Matching(s) : \E b \in Matching(s) : a[1] < b[1]
        /\ varres.query_type = "director_movies"
        /\ varq # refq

\* p is g without its leading and trailing punctuation characters
TrimmedOf(g, p) ==
    \E a \in 1..(Len(g) + 1) : \E b \in 0..Len(g) :
       /\ p = SubSeq(g, a, b)
       /\ \A i \in 1..(a - 1) : g[i] \in punctuation
       /\ \A i \in (b + 1)..Len(g) : g[i] \in punctuation
       /\ p # <<>> => (p[1] \notin punctuation /\ p[Len(p)] \notin punctuation)

\* C6: a question that matches a regex gets the same intent in every
\* upper/lower-case variant and with whitespace put around it, and the
\* parameter returned is the captured text without its leading and trailing
\* punctuation characters, so it neither begins nor ends with one.
C6_CaseAndTrim ==
    refres.query_type # "None" =>
       /\ varres.query_type = refres.query_type
       /\ TrimmedOf(Captured(strip(varq, Whitespace)), varres.param)

C6_Witness ==
    /\ refres.query_type = "movie_info"
    /\ varq # refq
    /\ Len(varq) > Len(refq)
    /\ \E i \in 1..Len(refq) : refq[i] \notin Range(varq)
    /\ Len(Captured(strip(varq, Whitespace))) > Len(varres.param)
    /\ Captured(strip(varq, Whitespace))[1] \in punctuation
    /\ Len(varres.param) > 0

\* C7 (as claimed): the query text given to the store is the matched rule's
\* template and the extracted parameter is bound to param1, whatever the
\* parameter is, the empty string included.
C7_ParamAlwaysBound ==
    sent # NoRun =>
       /\ sent.query = PatternsOf(query_type).query
       /\ sent.query \in {DirectorQuery, ActorQuery, MovieInfoQuery}
       /\ sent.bound
       /\ sent.param1 = param

\* a str as its lines: the parts between the line breaks
RECURSIVE SplitLines(_)
SplitLines(parts) ==
    IF \A i \in 1..Len(parts) : parts[i] # "\n" THEN <<parts>>
    ELSE LET n == CHOOSE i \in 1..Len(parts) : parts[i] = "\n" /\ \A j \in 1..(i - 1) : parts[j] # "\n"
         IN  <<SubSeq(parts, 1, n - 1)>> \o SplitLines(SubSeq(parts, n + 1, Len(parts)))

\* C8: for director_movies and actor_movies and N >= 1 rows the answer has
\* exactly N lines, line i being "<movie> (<year>) - Rating: <rating>" of
\* row i.
C8_OneLinePerRow ==
    (pc = "returned" /\ query_type \in {"director_movies", "actor_movies"} /\ Len(results) >= 1) =>
       LET lines == SplitLines(output)
       IN  /\ Len(lines) = Len(results)
           /\ \A i \in 1..Len(results) :
                 lines[i] = <<PyStr(results[i]["movie"]), " (", PyStr(results[i]["year"]),
                              ") - Rating: ", PyStr(results[i]["rating"])>>

C8_Witness ==
    /\ pc = "returned"
    /\ query_type = "actor_movies"
    /\ Len(results) >= 2
    /\ results[1] # results[2]
    /\ Len(SplitLines(output)) = Len(results)

\* C9: whatever the intent, no rows are answered with "No results found.",
\* and so is a matched question whose query failed inside execute_query.
C9_NoRowsNoResults ==
    (pc = "returned" /\ query_type # "None") =>
       /\ results = <<>> => output = <<"No results found.">>
       /\ raised \cap ExecuteSteps # {} => output = <<"No results found.">>

C9_Witness ==
    /\ pc = "returned"
    /\ query_type = "movie_info"
    /\ sent.bound
    /\ "record.data" \in raised
    /\ Len(records) > 0
    /\ output = <<"No results found.">>

GenSteps == <<"generate_cypher_query", "execute_query", "generate_context_aware_answer">>

IsPrefix(a, b) == Len(a) <= Len(b) /\ SubSeq(b, 1, Len(a)) = a

\* C10: handle_complex_query calls the synthesizer, the executor and the
\* composer in this order, each at most once.  After a failed execution the
\* composer is still called, with the empty result set, and its text is the
\* answer; a raise of the synthesizer or of the composer ends the question
\* with the apology, and after a raise of the synthesizer neither the
\* executor nor the composer is called.
C10_GenerativeSequence ==
    \A t \in Threads :
       /\ IsPrefix(gcalls[t], GenSteps)
       /\ gpc[t] = "returned" =>
             /\ "generate_cypher_query" \in graised[t] =>
                   (answer[t] = Apology /\ gcalls[t] = <<"generate_cypher_query">> /\ composed[t] = NotComposed)
             /\ "generate_cypher_query" \notin graised[t] => gcalls[t] = GenSteps
             /\ graised[t] \cap ExecuteSteps # {} => composed[t] = <<>>
             /\ IF graised[t] \ ExecuteSteps # {} THEN answer[t] = Apology
                ELSE answer[t] \in {strip(c, Whitespace) : c \in AnswerCompletions}

C10_Witness ==
    \E t \in Threads :
       /\ gpc[t] = "returned"
       /\ graised[t] = {"session.run"}
       /\ composed[t] = <<>>
       /\ gcalls[t] = GenSteps
       /\ answer[t] # Apology

\* what json.loads makes of the completion of the call, when it makes anything
LoadedIntent == IF completion.raised \/ completion.content = None THEN Raised
                ELSE json_loads(strip(completion.content, Whitespace))

\* C11 (as claimed): get_question_intent always returns a mapping with
\* primary_intent and entities, and when the model call failed, or its text
\* does not parse, or it parses to something that is not such a mapping, the
\* result is exactly {primary_intent: None, entities: {}}.
C11_IntentAlwaysShaped ==
    intent.returned =>
        /\ IsIntentMapping(intent.value)
        /\ (LoadedIntent.raised \/ ~IsIntentMapping(LoadedIntent.value)) => intent.value = NeutralIntent

\* import_data on an empty store for the rows, one after the other
RECURSIVE ImportAll(_, _)
ImportAll(g, rows) == IF rows = <<>> THEN g ELSE ImportAll(ProcessRow(g, Head(rows)), Tail(rows))

\* the rows with every row left only where it was imported last
RECURSIVE ImportedOnce(_)
ImportedOnce(rows) ==
    IF rows = <<>> THEN <<>>
    ELSE (IF \E j \in 2..Len(rows) : rows[j] = Head(rows) THEN <<>> ELSE <<Head(rows)>>) \o ImportedOnce(Tail(rows))

\* the rows with every row left only where it was imported first
RECURSIVE ImportedFirst(_)
ImportedFirst(rows) ==
    IF rows = <<>> THEN <<>>
    ELSE LET front == SubSeq(rows, 1, Len(rows) - 1)
             last == rows[Len(rows)]
         IN  ImportedFirst(front) \o (IF \E j \in 1..Len(front) : front[j] = last THEN <<>> ELSE <<last>>)

\* no two different rows are rows of the same movie
RanksDistinct(rows) == \A i, j \in 1..Len(rows) : rows[i].rank = rows[j].rank => rows[i] = rows[j]

\* the node a relationship starts or ends at, by label and key
KeyOf(g, n) == CASE n[1] = "Movie" -> <<"Movie", g.movies[n[2]].id>>
                 [] n[1] = "Person" -> <<"Person", g.persons[n[2]]>>
                 [] n[1] = "Genre" -> <<"Genre", g.genres[n[2]]>>

\* the graph without the order of creation
Content12(g) == [movies |-> Range(g.movies), persons |-> Range(g.persons), genres |-> Range(g.genres),
                 rels |-> {<<r.type, KeyOf(g, r.start), KeyOf(g, r.end)>> : r \in Range(g.rels)}]

NoDuplicates(g) ==
    /\ \A i, j \in 1..Len(g.movies) : g.movies[i].id = g.movies[j].id => i = j
    /\ \A i, j \in 1..Len(g.persons) : g.persons[i] = g.persons[j] => i = j
    /\ \A i, j \in 1..Len(g.genres) : g.genres[i] = g.genres[j] => i = j
    /\ \A i, j \in 1..Len(g.rels) : g.rels[i] = g.rels[j] => i = j

\* C12: whatever rows were imported, and however often and in whatever order,
\* the store holds one Movie node for an id, one Person and one Genre node for
\* a name and one relationship of a type between two nodes, and it is the
\* graph that importing every row once gives: each row where it came last,
\* which decides the properties of a movie that two rows have the rank of,
\* and, when no two rows have the rank of one movie, each row where it came
\* first as well.
C12_ImportIdempotent ==
    /\ NoDuplicates(graph)
    /\ Content12(graph) = Content12(ImportAll(EmptyGraph, ImportedOnce(history)))
    /\ RanksDistinct(history) => Content12(graph) = Content12(ImportAll(EmptyGraph, ImportedFirst(history)))

\* a row that wrote a movie was imported, then a row of another movie, then
\* the first row again, and the loop has ended
C12_Witness ==
    /\ pending = <<>>
    /\ \E i, j, k \in 1..Len(history) :
          /\ i < j /\ j < k
          /\ history[i] = history[k] /\ history[j] # history[i]
          /\ history[i].rank # NaN /\ history[j].rank # NaN
          /\ history[i].rank # history[j].rank
    /\ Len(graph.movies) = 2

\* the reply is a fenced block: an opening fence, with a language tag or
\* none, the query, and the closing fence
Fenced(r) == r.open = Fence /\ r.close = Fence

Unfenced(r) == r.open = <<>> /\ r.close = <<>>

\* C13 (as claimed): for every model response the string returned by
\* generate_cypher_query neither begins nor ends with a grave accent; for a
\* fenced response it is the query that was inside the fence, whitespace
\* trimmed; for a response without fences it is the response, whitespace trimmed.
C13_FencesRemoved ==
    generated # None =>
        /\ generated # <<>> => (generated[1] # Grave /\ generated[Len(generated)] # Grave)
        /\ Fenced(reply) => generated = strip(reply.body, Whitespace)
        /\ Unfenced(reply) => generated = strip(Content(reply), Whitespace)

====
